---- MODULE Spec2Model ----
(***************************************************************************)
(* Model of the session controller of ak-backend:                          *)
(*   src/src/controllers/user.controller.js                                *)
(*   src/unnamed/part_000   (a second controller file with registerUser,   *)
(*                           loginUser and logOutUser; its definitions     *)
(*                           carry the prefix part000_)                    *)
(* reqs holds, in order of their first step, the requests in flight and    *)
(* the ones answered with success; a handler advances at each await, and   *)
(* its first step runs to its first store operation.  failed is the        *)
(* request the last step answered with an error, if it did.  The           *)
(* credential store is the sequence users, a user's _id is its index.  The User model (user.model.js), the auth middleware and  *)
(* jsonwebtoken are not part of the listed sources: tokens, the password   *)
(* hash and the unique indexes follow the written specification.           *)
(***************************************************************************)
EXTENDS Integers, Sequences, FiniteSets, TLC

VARIABLES users, reqs, failed, now

vars == <<users, reqs, failed, now>>

-----------------------------------------------------------------------------
(* Bounds of the model.  The horizon MaxTime is shorter than the life of a  *)
(* refresh token and as long as the life of an access token.               *)

MaxUsers == 2
MaxReqs == 3
MaxInFlight == 2
MaxTime == 1
AccessTokenExpiry == 1
RefreshTokenExpiry == 2

-----------------------------------------------------------------------------
(* Input values *)

Absent == ""
Blank == " "
Usernames == {"Alice", "bob"}
Emails == {"a@x", "b@x"}
Passwords == {"p1", "p2"}
Fullnames == {"F", Blank}
(* identifiers and passwords sent to login and changePassword *)
LoginUsernames == {"alice", Absent}
LoginEmails == {"b@x", Absent}
NewPasswords == {"p2"}
RegisterPasswords == {"p1"}
(* req.files: undefined, an object without avatar, with avatar, with both  *)
Files == {"undefined", "noAvatar", "avatar", "avatarAndCover"}

(* username.toLowerCase() *)
toLowerCase(s) == IF s = "Alice" THEN "alice" ELSE s

(* field?.trim() *)
trim(s) == IF s = Blank THEN "" ELSE s

-----------------------------------------------------------------------------
(* Tokens: jwt.sign over a payload holding the user id; jsonwebtoken adds  *)
(* iat (whole seconds) and exp = iat + expiry, and the signature is a      *)
(* function of header, payload and secret.                                 *)

NoToken == [kind |-> "none", uid |-> 0, iat |-> 0]
ForgedToken == [kind |-> "forged", uid |-> 1, iat |-> 0]

generateAccessToken(uid, t) == [kind |-> "access", uid |-> uid, iat |-> t]
generateRefreshToken(uid, t) == [kind |-> "refresh", uid |-> uid, iat |-> t]

(* a correctly signed refresh token that no response of this run returned: *)
(* its user id names no record, or a record registered later               *)
UnstoredToken == generateRefreshToken(MaxUsers, 0)

(* jwt.verify(token, REFRESH_TOKEN_SECRET) succeeds *)
VerifyRefresh(tok, t) ==
    /\ tok.kind = "refresh"
    /\ t < tok.iat + RefreshTokenExpiry

(* jwt.verify(token, ACCESS_TOKEN_SECRET) succeeds *)
VerifyAccess(tok, t) ==
    /\ tok.kind = "access"
    /\ t < tok.iat + AccessTokenExpiry

(* password hash written by the pre-save hook, and user.isPasswordCorrect *)
Hash(p) == <<"hash", p>>
isPasswordCorrect(user, p) == user.password = Hash(p)

-----------------------------------------------------------------------------
(* Credential store *)

(* a create that also stores a refresh token *)
NewUser_withToken(fullname, email, username, password, avatar, coverImage) ==
    [fullname |-> fullname, email |-> email, username |-> username,
     password |-> Hash(password), avatar |-> avatar,
     coverImage |-> coverImage, refreshToken |-> UnstoredToken]

NewUser(fullname, email, username, password, avatar, coverImage) ==
    [fullname |-> fullname, email |-> email, username |-> username,
     password |-> Hash(password), avatar |-> avatar,
     coverImage |-> coverImage, refreshToken |-> NoToken]

Ids == 1..Len(users)

(* User.findOne({$or: [...]}) : the first matching document, 0 for null *)
FirstMatch(S) == IF S = {} THEN 0 ELSE CHOOSE k \in S : \A j \in S : k <= j

findOneRegister(email, username) ==
    FirstMatch({k \in Ids : users[k].email = email \/ users[k].username = username})

findOneLogin(username, email) ==
    FirstMatch({k \in Ids : users[k].username = username \/ users[k].email = email})

(* unique indexes on username and email: the insert is refused *)
DuplicateKey(email, username) ==
    \E k \in Ids : users[k].email = email \/ users[k].username = username

-----------------------------------------------------------------------------
(* Requests *)

(* .select("-password -refreshToken"): the document without the excluded   *)
(* paths; a path that is not set is not in the document                    *)
select(user, excluded) ==
    LET unset == IF user.refreshToken = NoToken THEN {"refreshToken"} ELSE {}
    IN  [f \in (DOMAIN user \ excluded) \ unset |-> user[f]]

Cookie(name, value, secure) ==
    [name |-> name, value |-> value, httpOnly |-> TRUE, secure |-> secure]

Done == {j \in 1..Len(reqs) : reqs[j].pc = "done"}
InFlight == {j \in 1..Len(reqs) : reqs[j].pc # "done"}

Request(op, pc, prior) ==
    [op |-> op, pc |-> pc, uid |-> 0, username |-> Absent, email |-> Absent,
     fullname |-> Absent, password |-> Absent, newPassword |-> Absent,
     token |-> NoToken, stored |-> NoToken,
     accessToken |-> NoToken, refreshToken |-> NoToken,
     coverImage |-> "", status |-> 0, cookies |-> {}, cleared |-> {},
     avatar |-> Absent, view |-> <<>>,
     prior |-> prior]

(* a request starting now: prior is the set of requests already answered *)
NewReq(op, pc) == Request(op, pc, Done)

NoFailure == Request("none", "done", {})

CanStart ==
    /\ Len(reqs) < MaxReqs
    /\ Cardinality(InFlight) < MaxInFlight

(* the first step of request r goes through *)
Accept(r) ==
    /\ reqs' = Append(reqs, r)
    /\ failed' = NoFailure

(* the first step of request r throws: the error response carries the code *)
Reject(r, code) ==
    /\ failed' = [r EXCEPT !.pc = "done", !.status = code]
    /\ UNCHANGED <<users, reqs>>

(* reqs without request i, which is in flight and so in no prior set *)
Remove(i) ==
    [j \in 1..(Len(reqs) - 1) |->
        LET r == reqs[IF j < i THEN j ELSE j + 1]
        IN  [r EXCEPT !.prior = {IF k > i THEN k - 1 ELSE k : k \in r.prior}]]

(* a later step of request i throws *)
Throw(i, code) ==
    /\ failed' = [reqs[i] EXCEPT !.pc = "done", !.status = code]
    /\ reqs' = Remove(i)
    /\ UNCHANGED users

(* request i goes on as r *)
Continue(i, r) ==
    /\ reqs' = [reqs EXCEPT ![i] = r]
    /\ failed' = NoFailure

(* tokens a client can hold: those returned by earlier responses *)
IssuedTokens ==
    UNION {{reqs[j].accessToken, reqs[j].refreshToken} : j \in Done} \ {NoToken}

(* the auth middleware accepted an access token of user u *)
Authenticated(u) ==
    /\ u \in Ids
    /\ \E tok \in IssuedTokens : tok.uid = u /\ VerifyAccess(tok, now)

-----------------------------------------------------------------------------
Alice == NewUser("F", "a@x", "alice", "p1", "url", "")
Bob == NewUser("F", "b@x", "bob", "p1", "url", "")

(* the store when the server starts: a registered user, nobody logged in *)
Init ==
    /\ users = <<Alice>>
    /\ reqs = <<>>
    /\ failed = NoFailure
    /\ now = 0

(* the same with two registered users *)
InitTwo ==
    /\ users = <<Alice, Bob>>
    /\ reqs = <<>>
    /\ failed = NoFailure
    /\ now = 0

(* the store when the server starts empty *)
InitEmpty ==
    /\ users = <<>>
    /\ reqs = <<>>
    /\ failed = NoFailure
    /\ now = 0

Tick ==
    /\ now < MaxTime
    /\ now' = now + 1
    /\ failed' = NoFailure
    /\ UNCHANGED <<users, reqs>>

-----------------------------------------------------------------------------
(* registerUser *)

(* req.files?.avatar[0]?.path : "TypeError" when req.files has no avatar *)
avatarLocalPath(files) ==
    CASE files = "undefined" -> ""
      [] files = "noAvatar" -> "TypeError"
      [] OTHER -> "path"

(* the guarded variant of part_000 *)
part000_avatarLocalPath(files) ==
    IF files \in {"avatar", "avatarAndCover"} THEN "path" ELSE ""

(* the fields are validated; findOne({$or: [{email}, {username}]})         *)
(* resolves; files are read and uploaded; User.create is awaited           *)
RegisterStart(op) ==
    /\ CanStart
    /\ Len(users) + Cardinality({j \in InFlight :
           reqs[j].op \in {"register", "part000_register"}}) < MaxUsers
    /\ \E fullname \in Fullnames, email \in Emails,
          username \in Usernames, password \in RegisterPasswords :
          LET r == [NewReq(op, "create") EXCEPT
                       !.fullname = fullname, !.email = email,
                       !.username = username, !.password = password]
              existedUser == findOneRegister(email, username)
          IN  IF \E f \in {fullname, email, username, password} : trim(f) = ""
              THEN Reject(r, 400)
              ELSE IF existedUser # 0 THEN Reject(r, 409)
              ELSE \E files \in Files :
                   LET path == IF op = "register" THEN avatarLocalPath(files)
                               ELSE part000_avatarLocalPath(files)
                   IN  IF path = "TypeError" THEN Reject(r, 500)
                       ELSE IF path = "" THEN Reject(r, 400)
                       ELSE \E avatarOk \in BOOLEAN :
                            LET uploaded ==
                                    [r EXCEPT !.avatar = IF avatarOk THEN "url"
                                                         ELSE "null"]
                            IN  IF uploaded.avatar = "null"
                                THEN Reject(uploaded, 400)
                                ELSE \E coverOk \in
                                        IF files = "avatarAndCover"
                                        THEN BOOLEAN ELSE {FALSE} :
                                     /\ Accept([uploaded EXCEPT !.coverImage =
                                            IF coverOk THEN "url" ELSE ""])
                                     /\ UNCHANGED users
    /\ UNCHANGED now

registerUser == RegisterStart("register")

part000_registerUser == RegisterStart("part000_register")

(* User.create with username.toLowerCase(); the unique index refuses a     *)
(* duplicate and the driver error leaves the handler; else the created     *)
(* user is read with select("-password -refreshToken") and returned, 201   *)
registerUser_create(i) ==
    /\ i \in InFlight
    /\ reqs[i].op \in {"register", "part000_register"}
    /\ reqs[i].pc = "create"
    /\ LET r == reqs[i]
           username == toLowerCase(r.username)
           user == NewUser(r.fullname, r.email, username, r.password,
                           r.avatar, r.coverImage)
       IN  IF DuplicateKey(r.email, username)
           THEN Throw(i, 500)
           ELSE /\ users' = Append(users, user)
                /\ Continue(i, [r EXCEPT !.pc = "done", !.status = 201,
                                         !.uid = Len(users) + 1,
                                         !.view = select(user,
                                             {"password", "refreshToken"})])
    /\ UNCHANGED now

-----------------------------------------------------------------------------
(* generateAccessAndRefreshToken: findById resolves, both tokens are       *)
(* signed at the current second, user.save is awaited                      *)

generateAccessAndRefreshToken(i) ==
    /\ i \in InFlight
    /\ reqs[i].pc = "gen"
    /\ LET r == reqs[i]
       IN  Continue(i, [r EXCEPT !.pc = "save",
                           !.accessToken = generateAccessToken(r.uid, now),
                           !.refreshToken = generateRefreshToken(r.uid, now)])
    /\ UNCHANGED <<users, now>>

(* a save of the access token in place of the refresh token *)
SaveRefreshToken_accessToken(uid, tok) ==
    users' = [users EXCEPT
                 ![uid].refreshToken = generateAccessToken(tok.uid, tok.iat)]

(* a save that keeps a token already stored *)
SaveRefreshToken_once(uid, tok) ==
    users' = [users EXCEPT ![uid].refreshToken = IF @ = NoToken THEN tok ELSE @]

(* user.save({validateBeforeSave: false}) writes the modified path only *)
SaveRefreshToken(uid, tok) ==
    users' = [users EXCEPT ![uid].refreshToken = tok]

-----------------------------------------------------------------------------
(* loginUser *)

(* !username && !email *)
NoIdentifier(username, email) == username = Absent /\ email = Absent

(* !username || !email *)
part000_NoIdentifier(username, email) == username = Absent \/ email = Absent

(* the identifiers are validated; findOne({$or: [{username}, {email}]})   *)
(* resolves; the password is compared                                      *)
LoginStart(op) ==
    /\ CanStart
    /\ \E username \in LoginUsernames, email \in LoginEmails,
          password \in Passwords :
          LET r == [NewReq(op, "gen") EXCEPT
                       !.username = username, !.email = email,
                       !.password = password]
              user == findOneLogin(username, email)
              missing == IF op = "login" THEN NoIdentifier(username, email)
                         ELSE part000_NoIdentifier(username, email)
          IN  IF missing THEN Reject(r, 400)
              ELSE IF user = 0 THEN Reject(r, 404)
              ELSE IF ~isPasswordCorrect(users[user], password)
                   THEN Reject([r EXCEPT !.uid = user], 401)
              ELSE /\ Accept([r EXCEPT !.uid = user])
                   /\ UNCHANGED users
    /\ UNCHANGED now

loginUser == LoginStart("login")

part000_loginUser == LoginStart("part000_login")

LoginCookies(r) ==
    {Cookie("accessToken", r.accessToken, FALSE),
     Cookie("refreshToken", r.refreshToken, FALSE)}

part000_LoginCookies(r) ==
    {Cookie("accessToken", r.accessToken, TRUE),
     Cookie("refressToken", r.refreshToken, TRUE)}

(* the save of generateAccessAndRefreshToken lands; the user view is read  *)
(* and the response is sent                                                *)
loginUser_save(i) ==
    /\ i \in InFlight
    /\ reqs[i].op \in {"login", "part000_login"}
    /\ reqs[i].pc = "save"
    /\ SaveRefreshToken(reqs[i].uid, reqs[i].refreshToken)
    /\ LET r == reqs[i]
       IN  Continue(i, [r EXCEPT !.pc = "done", !.status = 200,
                           !.view = select(users'[r.uid],
                                           {"password", "refreshToken"}),
                           !.cookies = IF r.op = "login" THEN LoginCookies(r)
                                       ELSE part000_LoginCookies(r)])
    /\ UNCHANGED now

-----------------------------------------------------------------------------
(* logoutUser *)

(* findByIdAndUpdate(req.user._id, {$unset: {refreshToken: 1}}) *)
logoutUser ==
    /\ CanStart
    /\ \E u \in Ids :
          /\ Authenticated(u)
          /\ users' = [users EXCEPT ![u].refreshToken = NoToken]
          /\ Accept([NewReq("logout", "done") EXCEPT
                        !.uid = u, !.status = 200,
                        !.cleared = {"accessToken", "refreshToken"}])
    /\ UNCHANGED now

(* part_000: res.user is undefined, res.user._id throws before the update *)
part000_logOutUser ==
    /\ CanStart
    /\ \E u \in Ids :
          /\ Authenticated(u)
          /\ Reject([NewReq("part000_logout", "done") EXCEPT !.uid = u], 500)
    /\ UNCHANGED now

-----------------------------------------------------------------------------
(* refreshAccessToken *)

(* req.cookies.refreshToken || req.body.refreshToken *)
incomingRefreshToken(cookie, body) == IF cookie # NoToken THEN cookie ELSE body

(* a compare of the owners of the two tokens only *)
Mismatch_uidOnly(incoming, stored) == incoming.uid # stored.uid

(* incomingRefreshToken !== user?.refreshToken *)
Mismatch(incoming, stored) == incoming # stored

(* an error thrown in the try block is rethrown as this status *)
catchError_rethrow(code) == code

(* catch (error) { throw new ApiError(401, ...) } *)
catchError(code) == 401

(* the token is required and verified; findById(decodedToken._id)         *)
(* resolves; the incoming token is compared to the stored one; every throw *)
(* of the try block becomes a 401                                          *)
refreshAccessToken ==
    /\ CanStart
    /\ \E cookie \in IssuedTokens \cup {NoToken, ForgedToken, UnstoredToken} :
       \E body \in IF cookie = NoToken THEN IssuedTokens \cup {NoToken}
                   ELSE {NoToken, ForgedToken} :
          LET tok == incomingRefreshToken(cookie, body)
              r == [NewReq("refresh", "gen") EXCEPT !.token = tok]
              user == IF tok.uid \in Ids THEN tok.uid ELSE 0
              found == [r EXCEPT !.uid = user,
                                 !.stored = users[user].refreshToken]
          IN  IF tok = NoToken THEN Reject(r, 401)
              ELSE IF ~VerifyRefresh(tok, now) THEN Reject(r, catchError(0))
              ELSE IF user = 0 THEN Reject(r, catchError(3401))
              ELSE IF Mismatch(tok, found.stored)
                   THEN Reject(found, catchError(401))
              ELSE /\ Accept(found)
                   /\ UNCHANGED users
    /\ UNCHANGED now

RefreshCookies(r) ==
    {Cookie("accessToken", r.accessToken, TRUE),
     Cookie("refreshToken", r.refreshToken, TRUE)}

refreshAccessToken_save(i) ==
    /\ i \in InFlight
    /\ reqs[i].op = "refresh"
    /\ reqs[i].pc = "save"
    /\ SaveRefreshToken(reqs[i].uid, reqs[i].refreshToken)
    /\ LET r == reqs[i]
       IN  Continue(i, [r EXCEPT !.pc = "done", !.status = 200,
                           !.cookies = RefreshCookies(r)])
    /\ UNCHANGED now

-----------------------------------------------------------------------------
(* changeCurrentPassword *)

(* a check that lost its negation *)
InvalidOldPassword_inverted(user, oldPassword) ==
    isPasswordCorrect(user, oldPassword)

(* !isPasswordCorrect, the condition of the 400 *)
InvalidOldPassword(user, oldPassword) == ~isPasswordCorrect(user, oldPassword)

(* findById(req.user._id) resolves, isPasswordCorrect(oldPassword) *)
changeCurrentPassword ==
    /\ CanStart
    /\ \E u \in Ids, oldPassword \in Passwords, newPassword \in NewPasswords :
          LET r == [NewReq("changePassword", "save") EXCEPT
                       !.uid = u, !.password = oldPassword,
                       !.newPassword = newPassword]
          IN  /\ Authenticated(u)
              /\ IF InvalidOldPassword(users[u], oldPassword)
                 THEN Reject(r, 400)
                 ELSE /\ Accept(r)
                      /\ UNCHANGED users
    /\ UNCHANGED now

(* a save that writes the token path as well, unset *)
changeCurrentPassword_saveAll(i) ==
    /\ i \in InFlight
    /\ reqs[i].op = "changePassword"
    /\ reqs[i].pc = "save"
    /\ users' = [users EXCEPT ![reqs[i].uid].password = Hash(reqs[i].newPassword),
                              ![reqs[i].uid].refreshToken = NoToken]
    /\ Continue(i, [reqs[i] EXCEPT !.pc = "done", !.status = 200])
    /\ UNCHANGED now

(* user.password = newPassword; user.save(): the hook hashes the password *)
changeCurrentPassword_save(i) ==
    /\ i \in InFlight
    /\ reqs[i].op = "changePassword"
    /\ reqs[i].pc = "save"
    /\ users' = [users EXCEPT ![reqs[i].uid].password = Hash(reqs[i].newPassword)]
    /\ Continue(i, [reqs[i] EXCEPT !.pc = "done", !.status = 200])
    /\ UNCHANGED now

-----------------------------------------------------------------------------
(* the session operations of user.controller.js over registered users *)
Next ==
    \/ Tick
    \/ loginUser
    \/ logoutUser
    \/ refreshAccessToken
    \/ changeCurrentPassword
    \/ \E i \in 1..Len(reqs) :
          \/ generateAccessAndRefreshToken(i)
          \/ loginUser_save(i)
          \/ refreshAccessToken_save(i)
          \/ changeCurrentPassword_save(i)

Spec == Init /\ [][Next]_vars

(* registration, both controller files, from an empty store *)
NextRegister ==
    \/ registerUser
    \/ part000_registerUser
    \/ \E i \in 1..Len(reqs) : registerUser_create(i)

SpecRegister == InitEmpty /\ [][NextRegister]_vars

(* login and logout of part_000 over two registered users *)
NextPart000 ==
    \/ Tick
    \/ part000_loginUser
    \/ part000_logOutUser
    \/ \E i \in 1..Len(reqs) :
          \/ generateAccessAndRefreshToken(i)
          \/ loginUser_save(i)

SpecPart000 == InitTwo /\ [][NextPart000]_vars

-----------------------------------------------------------------------------
(* updateUserAccount, updateUserAvatar, updateUserCoverImage *)

AccountFullnames == {"G", Absent}
AccountEmails == {"b@x", Absent}
Uploads == {"null", "nourl", "url"}

(* a store without the index *)
EmailTaken_noIndex(u, email) == FALSE

(* unique index on email: the update is refused *)
EmailTaken(u, email) == \E k \in Ids \ {u} : users[k].email = email

(* the fields are required; findByIdAndUpdate(req.user?._id, {$set:        *)
(* {fullname, email}}, {new: true}).select("-password") is answered        *)
updateUserAccount ==
    /\ CanStart
    /\ \E u \in Ids, fullname \in AccountFullnames, email \in AccountEmails :
          LET r == [NewReq("updateAccount", "done") EXCEPT
                       !.uid = u, !.fullname = fullname, !.email = email]
              user == [users[u] EXCEPT !.fullname = fullname, !.email = email]
          IN  /\ Authenticated(u)
              /\ IF fullname = Absent \/ email = Absent THEN Reject(r, 400)
                 ELSE IF EmailTaken(u, email) THEN Reject(r, 500)
                 ELSE /\ users' = [users EXCEPT ![u] = user]
                      /\ Accept([r EXCEPT !.status = 200,
                                    !.view = select(user, {"password"})])
    /\ UNCHANGED now

(* req.file?.path is required; the file is uploaded; avatar.url is read    *)
(* (a TypeError when the upload returned nothing) and required;            *)
(* findByIdAndUpdate(..., {$set: {<path>: url}}).select("-password")       *)
UpdateImage(op, path) ==
    /\ CanStart
    /\ \E u \in Ids, file \in BOOLEAN :
          LET r == [NewReq(op, "done") EXCEPT !.uid = u]
              user == [users[u] EXCEPT ![path] = "url2"]
          IN  /\ Authenticated(u)
              /\ IF ~file THEN Reject(r, 400)
                 ELSE \E upload \in Uploads :
                      IF upload # "url"
                      THEN Reject([r EXCEPT !.avatar = upload], 500)
                      ELSE /\ users' = [users EXCEPT ![u] = user]
                           /\ Accept([r EXCEPT !.status = 200,
                                         !.avatar = upload,
                                         !.view = select(user, {"password"})])
    /\ UNCHANGED now

updateUserAvatar == UpdateImage("updateAvatar", "avatar")

updateUserCoverImage == UpdateImage("updateCoverImage", "coverImage")

(* the store when the server starts: empty, or with two registered users *)
InitAccounts ==
    /\ users \in {<<>>, <<Alice, Bob>>}
    /\ reqs = <<>>
    /\ failed = NoFailure
    /\ now = 0

(* registration, login, refresh and the account updates *)
NextAccounts ==
    \/ registerUser
    \/ loginUser
    \/ refreshAccessToken
    \/ updateUserAccount
    \/ updateUserAvatar
    \/ updateUserCoverImage
    \/ \E i \in 1..Len(reqs) :
          \/ registerUser_create(i)
          \/ generateAccessAndRefreshToken(i)
          \/ loginUser_save(i)
          \/ refreshAccessToken_save(i)

SpecAccounts == InitAccounts /\ [][NextAccounts]_vars

-----------------------------------------------------------------------------
(* asyncHandler.js *)

(* the value of a call that returns nothing: not a function *)
Undefined == [callable |-> FALSE]

(* the handlers handed to asyncHandler: async functions that respond, or   *)
(* reject with an ApiError carrying a status code (throws # 0)             *)
ReqHandlers ==
    [name : {"registerUser", "loginUser", "logoutUser"}, throws : {0, 400, 500}]

(* (req, res, next) => { Promise.resolve(reqHandler(...)).catch(next) } *)
Wrapper(reqHandler) == [callable |-> TRUE, reqHandler |-> reqHandler]

(* the body of asyncHandler is a block holding the function expression as  *)
(* a statement; there is no return, the call evaluates to undefined        *)
asyncHandler(reqHandler) ==
    LET statement == Wrapper(reqHandler)
    IN  Undefined

(* const handler = asyncHandler(async (req, res) => {...}) at module load *)
asyncHandler_export ==
    /\ Len(reqs) < MaxReqs
    /\ \E reqHandler \in ReqHandlers :
          reqs' = Append(reqs, [op |-> "asyncHandler", pc |-> "exported",
                                reqHandler |-> reqHandler,
                                exported |-> asyncHandler(reqHandler),
                                status |-> 0])
    /\ UNCHANGED <<users, failed, now>>

(* the router is given export i for a request: a function is called with   *)
(* (req, res, next), and a rejection of the handler reaches next(err),     *)
(* which answers with the error's status; a value that is no function      *)
(* cannot be mounted or called, the handler never runs                     *)
asyncHandler_call(i) ==
    /\ i \in 1..Len(reqs)
    /\ reqs[i].op = "asyncHandler"
    /\ reqs[i].pc = "exported"
    /\ LET r == reqs[i]
           h == r.exported.reqHandler
       IN  reqs' = [reqs EXCEPT ![i] =
               IF ~r.exported.callable
               THEN [r EXCEPT !.pc = "done"]
               ELSE [r EXCEPT !.pc = "done",
                              !.status = IF h.throws # 0 THEN h.throws
                                         ELSE 200]]
    /\ UNCHANGED <<users, failed, now>>

NextAsyncHandler ==
    \/ asyncHandler_export
    \/ \E i \in 1..Len(reqs) : asyncHandler_call(i)

SpecAsyncHandler == InitEmpty /\ [][NextAsyncHandler]_vars

-----------------------------------------------------------------------------
(* Properties *)

Last(q) == q[Len(q)]

Refreshes == {j \in 1..Len(reqs) : reqs[j].op = "refresh"}
Logins == {j \in 1..Len(reqs) : reqs[j].op \in {"login", "part000_login"}}
Logouts == {j \in 1..Len(reqs) : reqs[j].op = "logout"}

(* refresh(t) would pass verification and the compare in this state *)
WouldAccept(t) ==
    /\ VerifyRefresh(t, now)
    /\ t.uid \in Ids
    /\ ~Mismatch(t, users[t.uid].refreshToken)

(* C1: a refresh goes on to mint tokens only if the presented token equals *)
(* the stored token read for the compare; a refresh that presents a signed *)
(* refresh token differing from the stored one is answered 401; the step   *)
(* that rejects a refresh leaves the store unchanged.                      *)
C1_Compare ==
    /\ \A i \in Refreshes : reqs[i].token = reqs[i].stored
    /\ failed.op = "refresh" => failed.status = 401

C1_RefreshOnlyWithStoredToken ==
    /\ []C1_Compare
    /\ [][failed'.op = "refresh" => users' = users]_vars

(* a signed, unexpired token that differs from a stored token is rejected *)
C1_Witness ==
    /\ failed.op = "refresh"
    /\ failed.status = 401
    /\ VerifyRefresh(failed.token, now)
    /\ failed.stored.kind = "refresh"
    /\ failed.token # failed.stored

C5_ConcurrentRefreshBothSucceed ==
    \A i \in Refreshes, j \in Refreshes :
        ( /\ i # j
          /\ reqs[i].pc = "done" /\ reqs[j].pc = "done"
          /\ reqs[i].token = reqs[j].token
          /\ i \notin reqs[j].prior /\ j \notin reqs[i].prior
          /\ \A k \in (Logins \cup Logouts \cup Refreshes) \ {i, j} :
                k \in reqs[i].prior /\ k \in reqs[j].prior )
        => /\ reqs[i].status = 200 /\ reqs[j].status = 200
           /\ reqs[i].stored = reqs[i].token /\ reqs[j].stored = reqs[j].token
           /\ users[reqs[i].uid].refreshToken
                 \in {reqs[i].refreshToken, reqs[j].refreshToken}

(* both answered 200 with different pairs; the second write won and the    *)
(* token returned to the first is no longer accepted                       *)
C5_Witness ==
    \E i \in Refreshes, j \in Refreshes :
        /\ i # j
        /\ reqs[i].status = 200 /\ reqs[j].status = 200
        /\ reqs[i].token = reqs[j].token
        /\ i \notin reqs[j].prior /\ j \notin reqs[i].prior
        /\ reqs[i].refreshToken # reqs[j].refreshToken
        /\ users[reqs[j].uid].refreshToken = reqs[j].refreshToken
        /\ ~WouldAccept(reqs[i].refreshToken)

(* C6: a changePassword whose old password does not match the stored hash  *)
(* is answered 400 in a step that leaves the store unchanged, and a        *)
(* changePassword goes on to save only if the old password matched.        *)
C6_Step ==
    /\ failed'.op = "changePassword" =>
          /\ failed'.status = 400
          /\ ~isPasswordCorrect(users[failed'.uid], failed'.password)
          /\ users' = users
    /\ (Len(reqs') = Len(reqs) + 1 /\ Last(reqs').op = "changePassword") =>
          isPasswordCorrect(users[Last(reqs').uid], Last(reqs').password)

C6_WrongOldPasswordRejected == [][C6_Step]_vars

C6_Witness ==
    /\ failed.op = "changePassword"
    /\ failed.status = 400
    /\ ~isPasswordCorrect(users[failed.uid], failed.password)

Registers == {j \in 1..Len(reqs) : reqs[j].op \in {"register", "part000_register"}}

(* C7: once a register call has succeeded, a later register call with all  *)
(* fields filled in that supplies the same username or the same email is   *)
(* answered 409, and no second user is created for it.                     *)
C7_SecondRegisterConflicts ==
    /\ ( /\ failed.op \in {"register", "part000_register"}
         /\ \A f \in {failed.fullname, failed.email,
                      failed.username, failed.password} : trim(f) # ""
         /\ \E j \in failed.prior :
               /\ reqs[j].status = 201
               /\ \/ reqs[j].username = failed.username
                  \/ reqs[j].email = failed.email )
       => failed.status = 409
    /\ \A j \in Registers, k \in Registers :
          ( /\ j \in reqs[k].prior
            /\ reqs[j].status = 201
            /\ \/ reqs[j].username = reqs[k].username
               \/ reqs[j].email = reqs[k].email )
          => reqs[k].status # 201

(* C8: a login that supplies neither identifier is answered 400; a login   *)
(* that supplies exactly one identifier, of a registered user, with that   *)
(* user's password is not refused, and ends with status 200 and two tokens.*)
C8_OneIdentifierSuffices ==
    /\ ( /\ failed.op \in {"login", "part000_login"}
         /\ failed.username = Absent
         /\ failed.email = Absent )
       => failed.status = 400
    /\ ( /\ failed.op \in {"login", "part000_login"}
         /\ (failed.username = Absent) # (failed.email = Absent)
         /\ \E k \in Ids :
               /\ \/ users[k].username = failed.username
                  \/ users[k].email = failed.email
               /\ isPasswordCorrect(users[k], failed.password) )
       => FALSE
    /\ \A j \in Logins \cap Done :
          /\ reqs[j].status = 200
          /\ reqs[j].accessToken # NoToken
          /\ reqs[j].refreshToken # NoToken

(* C9: the response of a successful login sets an HTTP-only cookie named   *)
(* accessToken and an HTTP-only cookie named refreshToken, each holding    *)
(* the token of that name of the response body.                            *)
C9_LoginCookiesCarryBodyTokens ==
    \A j \in Logins \cap Done :
        reqs[j].status = 200 =>
            /\ \E c \in reqs[j].cookies :
                  /\ c.name = "accessToken"
                  /\ c.httpOnly
                  /\ c.value = reqs[j].accessToken
            /\ \E c \in reqs[j].cookies :
                  /\ c.name = "refreshToken"
                  /\ c.httpOnly
                  /\ c.value = reqs[j].refreshToken

(* C10: a logout by an authenticated caller is not answered with an error; *)
(* it unsets the refresh token of the caller's record and changes nothing  *)
(* else in the store, clears both cookies and responds 200.                *)
C10_Step ==
    /\ failed'.op \notin {"logout", "part000_logout"}
    /\ ( /\ Len(reqs') = Len(reqs) + 1
         /\ Last(reqs').op \in {"logout", "part000_logout"} )
       => /\ Last(reqs').status = 200
          /\ Last(reqs').cleared = {"accessToken", "refreshToken"}
          /\ users' = [users EXCEPT ![Last(reqs').uid].refreshToken = NoToken]

C10_LogoutUnsetsCallerToken == [][C10_Step]_vars

(* C11: a refresh that presents a correctly signed, unexpired refresh      *)
(* token whose user id has no record is answered 404.                      *)
C11_UnknownUserNotFound ==
    ( /\ failed.op = "refresh"
      /\ VerifyRefresh(failed.token, now)
      /\ failed.token.uid \notin Ids )
    => failed.status = 404

(* C11 as amended: such a refresh is answered 401, the status of every     *)
(* other refused refresh, and no token is minted for it.                   *)
C11_UnknownUserUnauthorized ==
    ( /\ failed.op = "refresh"
      /\ VerifyRefresh(failed.token, now)
      /\ failed.token.uid \notin Ids )
    => /\ failed.status = 401
       /\ failed.accessToken = NoToken
       /\ failed.refreshToken = NoToken

C11_Witness ==
    /\ failed.op = "refresh"
    /\ failed.token = UnstoredToken
    /\ VerifyRefresh(failed.token, now)
    /\ failed.token.uid \notin Ids
    /\ failed.status = 401

(* C12: what asyncHandler returns for a handler is a callable wrapper, and *)
(* a request given to it ends with the status the handler threw, or 200.   *)
C12_WrapperCallableAndForwards ==
    \A i \in 1..Len(reqs) :
        reqs[i].op = "asyncHandler" =>
            /\ reqs[i].exported.callable
            /\ reqs[i].pc = "done" =>
                  reqs[i].status = IF reqs[i].reqHandler.throws # 0
                                   THEN reqs[i].reqHandler.throws ELSE 200

(* C15: a register call with valid fields, no conflicting user and an      *)
(* avatar file, whose avatar upload returns nothing, is answered 500 and   *)
(* creates no user record.                                                 *)
C15_Step ==
    ( /\ failed'.op \in {"register", "part000_register"}
      /\ failed'.avatar = "null" )
    => /\ failed'.status = 500
       /\ users' = users

C15_UploadFailureIsUploadError == [][C15_Step]_vars

Views == {j \in Done : reqs[j].op \in {"register", "part000_register", "login",
                                        "part000_login", "updateAccount",
                                        "updateAvatar", "updateCoverImage"}}

(* C14: the user view returned by register, login, updateUserAccount,      *)
(* updateUserAvatar and updateUserCoverImage holds neither the password    *)
(* hash nor the refresh token of the record.                               *)
C14_ViewHidesPasswordAndToken ==
    \A j \in Views :
        /\ "password" \notin DOMAIN reqs[j].view
        /\ "refreshToken" \notin DOMAIN reqs[j].view

(* C16: a successful register sets no cookie and returns no token; the     *)
(* record it created stores no refresh token while no login of that user   *)
(* has succeeded; a refresh is accepted for a user only after a login of   *)
(* that user has succeeded, and is answered 401 otherwise.                 *)
C16_RegisterDoesNotLogIn ==
    /\ \A j \in Registers \cap Done :
          /\ reqs[j].cookies = {}
          /\ reqs[j].accessToken = NoToken
          /\ reqs[j].refreshToken = NoToken
          /\ "refreshToken" \notin DOMAIN reqs[j].view
          /\ (\A k \in Logins \cap Done : reqs[k].uid # reqs[j].uid)
             => users[reqs[j].uid].refreshToken = NoToken
    /\ \A r \in Refreshes :
          \E k \in Logins \cap Done :
              reqs[k].uid = reqs[r].uid /\ k \in reqs[r].prior
    /\ failed.op = "refresh" => failed.status = 401

(* a refresh naming a registered user who never logged in was refused *)
C16_Witness ==
    /\ failed.op = "refresh"
    /\ failed.status = 401
    /\ VerifyRefresh(failed.token, now)
    /\ \E j \in Registers \cap Done :
          /\ reqs[j].status = 201
          /\ reqs[j].uid = failed.token.uid
          /\ \A k \in Logins : reqs[k].uid # reqs[j].uid

(* the session requests of the user of request i, other than i *)
SessionPeers(i) ==
    {j \in (Logins \cup Refreshes \cup Logouts) \ {i} :
        reqs[j].uid = reqs[i].uid}

(* request i overlapped no session request of its user, and none that      *)
(* started after it has completed                                          *)
Undisturbed(i) ==
    \A j \in SessionPeers(i) :
        \/ j \in reqs[i].prior
        \/ i \in reqs[j].prior /\ reqs[j].pc # "done"

(* C17: after a successful login or refresh that overlapped no other       *)
(* login, refresh or logout of its user, the stored refresh token of the   *)
(* user is the one the response returned, until the next login, refresh or *)
(* logout of that user succeeds; a refused login or refresh leaves every   *)
(* stored refresh token as it was.                                         *)
C17_Stored ==
    \A i \in (Logins \cup Refreshes) \cap Done :
        (reqs[i].status = 200 /\ Undisturbed(i))
        => /\ reqs[i].refreshToken # NoToken
           /\ users[reqs[i].uid].refreshToken = reqs[i].refreshToken

C17_StoredTokenIsReturnedToken ==
    /\ []C17_Stored
    /\ [][failed'.op \in {"login", "part000_login", "refresh"}
            => \A u \in Ids : users'[u].refreshToken = users[u].refreshToken]_vars

(* a refresh after a login, neither disturbed, whose token is stored *)
C17_Witness ==
    \E i \in Refreshes \cap Done :
        /\ reqs[i].status = 200
        /\ Undisturbed(i)
        /\ \E l \in Logins : l \in reqs[i].prior /\ reqs[l].uid = reqs[i].uid
        /\ users[reqs[i].uid].refreshToken = reqs[i].refreshToken

(* C18: once a logout of a user has completed, and while no login of that  *)
(* user started since or was in flight then, the stored refresh token of   *)
(* the user is unset, whatever refreshes ran alongside the logout.         *)
C18_LogoutStaysUnset ==
    \A lo \in Logouts :
        (\A k \in Logins : reqs[k].uid = reqs[lo].uid => k \in reqs[lo].prior)
        => users[reqs[lo].uid].refreshToken = NoToken

(* the password-changing step of a changePassword request *)
C19_Changes ==
    /\ Len(reqs') = Len(reqs)
    /\ \E i \in 1..Len(reqs) :
          /\ reqs[i].op = "changePassword"
          /\ reqs[i].pc = "save"
          /\ reqs'[i].pc = "done"

C19_Changed == CHOOSE i \in 1..Len(reqs) :
                   reqs[i].op = "changePassword" /\ reqs[i].pc # reqs'[i].pc

(* C19: a successful changePassword leaves every field of every record     *)
(* but the caller's password as it was, so that each refresh token is      *)
(* accepted after it exactly if it was before; afterwards the new password *)
(* is the caller's password and the old password no longer is.             *)
C19_Step ==
    C19_Changes =>
        LET r == reqs[C19_Changed]
        IN  /\ reqs'[C19_Changed].status = 200
            /\ users' = [users EXCEPT ![r.uid].password = users'[r.uid].password]
            /\ users'[r.uid].refreshToken = users[r.uid].refreshToken
            /\ isPasswordCorrect(users'[r.uid], r.newPassword)
            /\ ~isPasswordCorrect(users'[r.uid], r.password)

C19_PasswordChangeKeepsSession == [][C19_Step]_vars

(* C19 as amended: the old password no longer is the caller's password     *)
(* when the new password differs from it.                                  *)
C19_StepAmended ==
    C19_Changes =>
        LET r == reqs[C19_Changed]
        IN  /\ reqs'[C19_Changed].status = 200
            /\ users' = [users EXCEPT ![r.uid].password = users'[r.uid].password]
            /\ users'[r.uid].refreshToken = users[r.uid].refreshToken
            /\ isPasswordCorrect(users'[r.uid], r.newPassword)
            /\ r.newPassword # r.password
               => ~isPasswordCorrect(users'[r.uid], r.password)

(* login refuses with 401 a password that is not the stored one of the     *)
(* user it found, and goes on with one that is                             *)
C19_LoginStep ==
    /\ (failed'.op = "login" /\ failed'.status = 401)
       => ~isPasswordCorrect(users[failed'.uid], failed'.password)
    /\ (Len(reqs') = Len(reqs) + 1 /\ Last(reqs').op = "login")
       => isPasswordCorrect(users[Last(reqs').uid], Last(reqs').password)

C19_PasswordChangeKeepsSessionAmended ==
    [][C19_StepAmended /\ C19_LoginStep]_vars

(* the password was changed while a refresh token was stored, and a login  *)
(* with the old password was then refused                                  *)
C19_Witness ==
    /\ failed.op = "login"
    /\ failed.status = 401
    /\ users[failed.uid].refreshToken # NoToken
    /\ WouldAccept(users[failed.uid].refreshToken)
    /\ \E c \in failed.prior :
          /\ reqs[c].op = "changePassword"
          /\ reqs[c].status = 200
          /\ reqs[c].password = failed.password
          /\ reqs[c].uid = failed.uid

=============================================================================
